---- MODULE Spec2Model ----
(***************************************************************************)
(* A model of notion_sync.py: the conversion of a remote tree of Notion    *)
(* blocks into one Markdown document.                                      *)
(*                                                                         *)
(* A Python str is modelled as a sequence of tokens.  A token is one       *)
(* character of text ("a", "\n") or one literal of the program written as  *)
(* a whole ("## ", "images", ".png"); the line break "\n" is always a      *)
(* token of its own, so splitting into lines is modelled exactly.  The     *)
(* line breaks of the texts are "\n", as in Notion's plain_text.           *)
(***************************************************************************)
EXTENDS Integers, Sequences, FiniteSets, TLC

VARIABLES
    pc,       \* where the program is
    stack,    \* the active calls of convert_blocks_to_markdown, innermost last
    fetch,    \* the locals of the running fetch_all_blocks
    remote,   \* the remote side: the pages of the child list being fetched
    nextId,   \* the id the remote side gives to the next block it serves
    log,      \* history: what the conversion has done so far, in order
    file,     \* the output Markdown file
    err,      \* the exception that ended the run ("" when none)
    arg,      \* the argument of a function run on its own
    ret       \* a returned value

vars == <<pc, stack, fetch, remote, nextId, log, file, err, arg, ret>>

(***************************************************************************)
(* Bounds of the model.                                                    *)
(***************************************************************************)
\* blocks the remote tree of one page holds in all
MaxBlocks == 3
\* blocks one page of a paginated child list holds at most
MaxPageSize == 2
\* pages of one paginated child list (fetch_all_blocks run on its own)
MaxPages == 3
\* children of a toggle (get_toggle_content run on its own)
MaxToggleKids == 3

(***************************************************************************)
(* Strings.                                                                *)
(***************************************************************************)
NL == "\n"

RECURSIVE Flatten(_)
\* "".join(parts)
Flatten(parts) ==
    IF parts = <<>> THEN <<>> ELSE Head(parts) \o Flatten(Tail(parts))

RECURSIVE JoinWith(_, _)
\* sep.join(parts)
JoinWith(sep, parts) ==
    IF parts = <<>> THEN <<>>
    ELSE IF Len(parts) = 1 THEN parts[1]
    ELSE parts[1] \o sep \o JoinWith(sep, Tail(parts))

RECURSIVE Pieces(_)
\* s split at every "\n": the pieces between the line breaks, the last one
\* being what follows the last line break (empty when s ends with one)
Pieces(s) ==
    IF \A k \in 1..Len(s) : s[k] # NL THEN <<s>>
    ELSE LET k == CHOOSE j \in 1..Len(s) :
                      s[j] = NL /\ \A m \in 1..(j - 1) : s[m] # NL
         IN  <<SubSeq(s, 1, k - 1)>> \o Pieces(SubSeq(s, k + 1, Len(s)))

\* str.splitlines(): the lines of s without their line breaks; a final line
\* break opens no further line, and the empty string has no line
SplitLines(s) ==
    LET p == Pieces(s)
    IN  IF p[Len(p)] = <<>> THEN SubSeq(p, 1, Len(p) - 1) ELSE p

RECURSIVE Repeat(_, _)
\* unit * n
Repeat(unit, n) == IF n <= 0 THEN <<>> ELSE unit \o Repeat(unit, n - 1)

\* the directory names of the output
BASE_DOCS_DIR == <<"docs">>
IMAGE_DIR == <<"images">>

(***************************************************************************)
(* Blocks.  A block is a record: id, type, has_children, and its payload   *)
(* under its type key: rich (the payload has a rich_text field),           *)
(* rich_text (a sequence of spans, each span its plain_text), icon (the    *)
(* type of a callout's icon and its emoji).                                *)
(***************************************************************************)
\* the four phrases of skip_keywords ("return to the top page", twice in two
\* spellings, "return to TOP", "return to the index"), each written as one
\* token: a text contains a phrase when it holds the token
SkipKeywords == {"<top-ni-modoru>", "<top-e-modoru>", "<TOP-e-modoru>", "<mokuji-e-modoru>"}

\* the default emoji of a callout (a light bulb)
DefaultIcon == "<bulb>"

\* extract_text: the spans' plain_text, concatenated
extract_text(rich_text_array) ==
    IF rich_text_array = <<>> THEN <<>> ELSE Flatten(rich_text_array)

\* get_icon: the emoji of a callout's icon, or the default
get_icon(block) ==
    IF block.icon.type = "emoji" THEN <<block.icon.emoji>> ELSE <<DefaultIcon>>

handle_callout(block) ==
    <<"> ">> \o get_icon(block) \o <<" ">> \o extract_text(block.rich_text) \o <<NL>>

handle_h1_block(block) ==
    <<NL, "## ">> \o extract_text(block.rich_text) \o <<NL, NL>>

handle_h2_block(block) ==
    <<NL, "### ">> \o extract_text(block.rich_text) \o <<NL, NL>>

handle_h3_block(block) ==
    <<NL, "#### ">> \o extract_text(block.rich_text) \o <<NL, NL>>

handle_paragraph_block(block) ==
    LET text == extract_text(block.rich_text)
    IN  IF \E k \in 1..Len(text) : text[k] \in SkipKeywords
        THEN <<>>
        ELSE text \o <<NL, NL>>

handle_bulleted_list_item_block(block) ==
    <<"* ">> \o extract_text(block.rich_text) \o <<NL>>

handle_numbered_list_item_block(block) ==
    <<"1. ">> \o extract_text(block.rich_text) \o <<NL>>

\* the keys of the handlers dictionary
HandledTypes ==
    {"heading_1", "heading_2", "heading_3", "paragraph",
     "bulleted_list_item", "numbered_list_item", "callout"}

\* handlers[b_type](block)
handlers(b_type, block) ==
    CASE b_type = "heading_1" -> handle_h1_block(block)
      [] b_type = "heading_2" -> handle_h2_block(block)
      [] b_type = "heading_3" -> handle_h3_block(block)
      [] b_type = "paragraph" -> handle_paragraph_block(block)
      [] b_type = "bulleted_list_item" -> handle_bulleted_list_item_block(block)
      [] b_type = "numbered_list_item" -> handle_numbered_list_item_block(block)
      [] b_type = "callout" -> handle_callout(block)

\* a faulty variant of the fallback: a block without a handler is dropped
FallbackContent_Drop(block) == <<>>

\* the fallback of handle_single_block for a type without a handler
FallbackContent(block) ==
    IF block.rich THEN extract_text(block.rich_text) \o <<NL, NL>> ELSE <<>>

\* the indent unit of handle_single_block
IndentUnit == <<"  ">>

\* handle_single_block(block, depth)
handle_single_block(block, depth) ==
    LET indent == Repeat(IndentUnit, depth)
        md_content == IF block.type \in HandledTypes
                      THEN handlers(block.type, block)
                      ELSE FallbackContent(block)
        lines == SplitLines(md_content)
    IN  IF md_content = <<>> THEN <<>>
        ELSE Flatten([k \in 1..Len(lines) |-> indent \o lines[k] \o <<NL>>])

(***************************************************************************)
(* What a call gives back: a value, or an exception that propagates.       *)
(***************************************************************************)
Returned(v) == [raised |-> FALSE, value |-> v]
Raised(kind) == [raised |-> TRUE, value |-> kind]

(***************************************************************************)
(* get_toggle_content.  resp is what notion.blocks.children.list answers   *)
(* for the toggle: an exception, or its results.                           *)
(***************************************************************************)
RECURSIVE ToggleLoop(_, _, _)
\* the for loop: content and extracted_texts are its two accumulators
ToggleLoop(child_blocks, content, extracted_texts) ==
    IF child_blocks = <<>> THEN extracted_texts
    ELSE LET child == Head(child_blocks)
             content2 == IF child.type = "paragraph"
                         THEN content \o Flatten(child.rich_text)
                         ELSE content
             extracted2 == IF child.type = "paragraph" /\ content2 # <<>>
                           THEN Append(extracted_texts, content2)
                           ELSE extracted_texts
         IN  ToggleLoop(Tail(child_blocks), content2, extracted2)

\* a faulty variant of get_toggle_content: no except clause, so a failure of
\* the list request leaves the function
get_toggle_content_NoExcept(resp) ==
    IF resp.raised
    THEN Raised("fetch")
    ELSE Returned(JoinWith(<<NL>>, ToggleLoop(resp.results, <<>>, <<>>)))

get_toggle_content(resp) ==
    IF resp.raised
    THEN Returned(<<>>)
    ELSE Returned(JoinWith(<<NL>>, ToggleLoop(resp.results, <<>>, <<>>)))

(***************************************************************************)
(* download_image and image_block_to_markdown.  status_code is the status  *)
(* of the response requests.get gives for the image's url.                 *)
(***************************************************************************)
\* f"{block_id}.png"
ImageFilename(block_id) == <<ToString(block_id), ".png">>

\* wrote: the image file was written
download_image(status_code, block_id) ==
    [raised |-> FALSE,
     value |-> IMAGE_DIR \o <<"/">> \o ImageFilename(block_id),
     wrote |-> (status_code = 200)]

image_block_to_markdown(block, alt_text, status_code) ==
    LET d == download_image(status_code, block.id)
    IN  IF d.raised
        THEN [raised |-> TRUE, value |-> d.value, wrote |-> FALSE]
        ELSE [raised |-> FALSE,
              value |-> <<"![">> \o alt_text \o <<"](">> \o d.value \o <<")", NL>>,
              wrote |-> d.wrote]

(***************************************************************************)
(* fetch_all_blocks.  A cursor is a number: NoCursor is Python's None, and *)
(* the cursor k > 0 is the one the remote side gives with its k-th page.   *)
(***************************************************************************)
NoCursor == 0

\* what the remote side answers to a list request: the page the cursor
\* leads to, among the pages of the child list
ListChildren(pages, start_cursor) ==
    LET k == start_cursor + 1
    IN  [raised |-> FALSE,
         results |-> pages[k],
         has_more |-> (k < Len(pages)),
         next_cursor |-> IF k < Len(pages) THEN k ELSE NoCursor]

\* a list request that fails
ListFailed ==
    [raised |-> TRUE, results |-> <<>>, has_more |-> FALSE, next_cursor |-> NoCursor]

\* the locals as fetch_all_blocks starts; reqs is history, the cursors of
\* the requests sent so far
FetchStart(block_id) ==
    [block_id |-> block_id, cursor |-> NoCursor, blocks |-> <<>>,
     reqs |-> <<>>, status |-> "loop"]

\* a faulty variant of the turn: the page's results replace blocks instead of
\* extending it
FetchTurn_Overwrite(f, return_data) ==
    LET sent == [f EXCEPT !.reqs = Append(f.reqs, f.cursor)]
    IN  IF return_data.raised
        THEN [sent EXCEPT !.status = "raised"]
        ELSE IF ~return_data.has_more
             THEN [sent EXCEPT !.blocks = return_data.results, !.status = "returned"]
             ELSE [sent EXCEPT !.blocks = return_data.results,
                               !.cursor = return_data.next_cursor]

\* a faulty variant of the turn: a failed request is caught and the blocks
\* read so far are returned
FetchTurn_Swallow(f, return_data) ==
    LET sent == [f EXCEPT !.reqs = Append(f.reqs, f.cursor)]
    IN  IF return_data.raised
        THEN [sent EXCEPT !.status = "returned"]
        ELSE LET blocks == f.blocks \o return_data.results
             IN  IF ~return_data.has_more
                 THEN [sent EXCEPT !.blocks = blocks, !.status = "returned"]
                 ELSE [sent EXCEPT !.blocks = blocks,
                                   !.cursor = return_data.next_cursor]

\* one turn of the while loop, return_data being the answer to its request
FetchTurn(f, return_data) ==
    LET sent == [f EXCEPT !.reqs = Append(f.reqs, f.cursor)]
    IN  IF return_data.raised
        THEN [sent EXCEPT !.status = "raised"]
        ELSE LET blocks == f.blocks \o return_data.results
             IN  IF ~return_data.has_more
                 THEN [sent EXCEPT !.blocks = blocks, !.status = "returned"]
                 ELSE [sent EXCEPT !.blocks = blocks,
                                   !.cursor = return_data.next_cursor]

\* no fetch is running
NoFetch ==
    [block_id |-> 0, cursor |-> NoCursor, blocks |-> <<>>,
     reqs |-> <<>>, status |-> "idle"]

(***************************************************************************)
(* The remote side of a page conversion.  It serves the blocks of the      *)
(* page's tree as the program asks for them, MaxBlocks in all, each with a *)
(* fresh id, and cuts every child list into pages of some size.            *)
(***************************************************************************)
NoIcon == [type |-> "none", emoji |-> ""]

Block(type, has_children, rich, rich_text) ==
    [id |-> 0, type |-> type, has_children |-> has_children,
     rich |-> rich, rich_text |-> rich_text, icon |-> NoIcon]

\* the blocks the remote tree is made of
TreeKinds ==
    { Block("paragraph", FALSE, TRUE, << <<"a">> >>),
      Block("paragraph", TRUE, TRUE, << <<"a">> >>),
      Block("image", FALSE, FALSE, <<>>),
      Block("image", TRUE, FALSE, <<>>),
      Block("toggle", TRUE, TRUE, << <<"t">> >>),
      Block("quote", FALSE, TRUE, << <<"q">>, <<NL, "r">> >>),
      Block("divider", TRUE, FALSE, <<>>),
      Block("heading_1", FALSE, TRUE, << <<"h">> >>) }

\* the child lists of at most n blocks, their ids first, first + 1, ...
ChildLists(n, first) ==
    UNION { { [k \in 1..m |-> [s[k] EXCEPT !.id = first + k - 1]] :
              s \in [1..m -> TreeKinds] } : m \in 0..n }

RECURSIVE Chunks(_, _)
\* a child list cut into pages of size blocks, the last one shorter; an
\* empty list is one empty page
Chunks(list, size) ==
    IF Len(list) <= size THEN <<list>>
    ELSE <<SubSeq(list, 1, size)>> \o Chunks(SubSeq(list, size + 1, Len(list)), size)

\* what the remote side may answer when asked for a paired toggle's children
ToggleAnswers ==
    { [raised |-> TRUE, results |-> <<>>],
      [raised |-> FALSE, results |-> <<>>],
      [raised |-> FALSE, results |-> <<Block("paragraph", FALSE, TRUE, << <<"c">> >>)>>] }

\* the status of the answer to an image download
StatusCodes == {200, 404}

\* the id of the page
PageId == 0

(***************************************************************************)
(* convert_blocks_to_markdown: one frame per active call.                  *)
(***************************************************************************)
\* a local that is not bound yet
Unbound == [bound |-> FALSE, val |-> <<>>]
Bound(v) == [bound |-> TRUE, val |-> v]

\* the locals as convert_blocks_to_markdown(block_list, depth) starts; parent
\* names the list: the id of the block (or page) the blocks are children of
NewFrame(parent, block_list, depth) ==
    [parent |-> parent, blocks |-> block_list, depth |-> depth,
     i |-> 1, md |-> <<>>, skip_indices |-> {}, alt_text |-> Unbound]

\* the depth convert_blocks_to_markdown hands to handle_single_block: the call
\* passes the block alone, so depth takes its default
HandledDepth(depth) == 0

Top == stack[Len(stack)]

\* a faulty variant of the look-ahead: the type of the next block is not
\* looked at
ToggleFollows_AnyType(f) == f.i + 1 <= Len(f.blocks)

\* the look-ahead: a next block exists and is a toggle
ToggleFollows(f) ==
    f.i + 1 <= Len(f.blocks) /\ f.blocks[f.i + 1].type = "toggle"

\* the loop is at a block it has to handle
AtBlock ==
    /\ pc = "convert"
    /\ stack # <<>>
    /\ Top.i <= Len(Top.blocks)
    /\ Top.i \notin Top.skip_indices

\* An entry of the history, about the block the loop of frame f is at: ev is
\* "visit" (the block was rendered: frag is what was appended to md), "skip"
\* (the loop passed an index of skip_indices) or "raise" (an exception, named
\* by note, left the call).  next is the type of the block after it ("" when
\* it is the last), tfail says that the list request for a toggle's children
\* failed.
Event(ev, f, frag, tfail, note) ==
    [ev |-> ev, parent |-> f.parent, i |-> f.i, n |-> Len(f.blocks),
     block |-> f.blocks[f.i], depth |-> f.depth, frag |-> frag,
     next |-> IF f.i < Len(f.blocks) THEN f.blocks[f.i + 1].type ELSE "",
     tfail |-> tfail, note |-> note]

\* An entry of the history about fetch_all_blocks(block_id): ev is "fetch" (it
\* returned n blocks, converted at depth), "listfail" (a list request failed
\* after n requests that did not) or "raise"; or about the page: "success".
FetchEvent(ev, block_id, n, depth, note) ==
    [ev |-> ev, parent |-> block_id, i |-> 0, n |-> n,
     block |-> [Block("", FALSE, FALSE, <<>>) EXCEPT !.id = block_id],
     depth |-> depth, frag |-> <<>>, next |-> "", tfail |-> FALSE, note |-> note]

NoFile == [written |-> FALSE, content |-> <<>>]

\* a faulty variant of md += part: the part is put in front
AppendMd_Prepend(md, part) == part \o md

\* md += part
AppendMd(md, part) == md \o part

\* an exception leaves every active call; events are added to the history
Propagate(kind, events) ==
    /\ pc' = "failed"
    /\ err' = kind
    /\ stack' = <<>>
    /\ fetch' = NoFetch
    /\ remote' = <<>>
    /\ log' = log \o events
    /\ UNCHANGED <<nextId, file, arg, ret>>

\* the remote side fixes the child list a fetch is about to read
StartFetch(block_id) ==
    \E list \in ChildLists(MaxBlocks - (nextId - 1), nextId), size \in 1..MaxPageSize :
        /\ remote' = Chunks(list, size)
        /\ nextId' = nextId + Len(list)
        /\ fetch' = FetchStart(block_id)
        /\ pc' = "fetch"

\* convert_page_to_md up to its call of fetch_all_blocks
ConvertPage ==
    /\ pc = "start"
    /\ StartFetch(PageId)
    /\ UNCHANGED <<stack, log, file, err, arg, ret>>

\* one list request of fetch_all_blocks; when it returns, its caller calls
\* convert_blocks_to_markdown on the blocks: at depth 0 for the page, at
\* depth + 1 for the children of a block
FetchPage ==
    /\ pc = "fetch"
    /\ \E return_data \in {ListFailed, ListChildren(remote, fetch.cursor)} :
        LET f == FetchTurn(fetch, return_data)
            depth == IF stack = <<>> THEN 0 ELSE Top.depth + 1
            failed == IF return_data.raised
                      THEN <<FetchEvent("listfail", fetch.block_id, Len(fetch.reqs), depth, "")>>
                      ELSE <<>>
        IN  CASE f.status = "raised" ->
                   Propagate("fetch",
                             failed \o <<FetchEvent("raise", f.block_id, 0, depth, "fetch")>>)
              [] f.status = "loop" ->
                   /\ fetch' = f
                   /\ log' = log \o failed
                   /\ UNCHANGED <<pc, stack, remote, nextId, file, err, arg, ret>>
              [] f.status = "returned" ->
                   /\ stack' = Append(stack, NewFrame(f.block_id, f.blocks, depth))
                   /\ log' = log \o failed
                             \o <<FetchEvent("fetch", f.block_id, Len(f.blocks), depth, "")>>
                   /\ pc' = "convert"
                   /\ fetch' = NoFetch
                   /\ remote' = <<>>
                   /\ UNCHANGED <<nextId, file, err, arg, ret>>

\* the loop meets an index of skip_indices
SkipConsumed ==
    /\ pc = "convert"
    /\ stack # <<>>
    /\ Top.i <= Len(Top.blocks)
    /\ Top.i \in Top.skip_indices
    /\ stack' = [stack EXCEPT ![Len(stack)].i = @ + 1]
    /\ log' = Append(log, Event("skip", Top, <<>>, FALSE, ""))
    /\ UNCHANGED <<pc, fetch, remote, nextId, file, err, arg, ret>>

\* the loop handles an image block
VisitImage ==
    /\ AtBlock
    /\ Top.blocks[Top.i].type = "image"
    /\ \E resp \in ToggleAnswers, status_code \in StatusCodes :
        LET block == Top.blocks[Top.i]
            paired == ToggleFollows(Top)
            t == get_toggle_content(resp)
            alt_text == IF paired THEN Bound(t.value) ELSE Top.alt_text
            skip == IF paired THEN Top.skip_indices \cup {Top.i + 1}
                    ELSE Top.skip_indices
            tfail == paired /\ resp.raised
            m == image_block_to_markdown(block, alt_text.val, status_code)
        IN  IF paired /\ t.raised
            THEN Propagate("toggle", <<Event("raise", Top, <<>>, tfail, "toggle")>>)
            ELSE IF ~alt_text.bound
            THEN Propagate("UnboundLocalError",
                           <<Event("raise", Top, <<>>, tfail, "UnboundLocalError")>>)
            ELSE IF m.raised
            THEN Propagate("download", <<Event("raise", Top, <<>>, tfail, "download")>>)
            ELSE /\ stack' = [stack EXCEPT ![Len(stack)] =
                                 [@ EXCEPT !.md = AppendMd(@, m.value),
                                           !.alt_text = alt_text,
                                           !.skip_indices = skip,
                                           !.i = @ + 1]]
                 /\ log' = Append(log, Event("visit", Top, m.value, tfail, ""))
                 /\ UNCHANGED <<pc, fetch, remote, nextId, file, err, arg, ret>>

\* the loop handles a block that is no image
VisitBlock ==
    /\ AtBlock
    /\ Top.blocks[Top.i].type # "image"
    /\ LET block == Top.blocks[Top.i]
           frag == handle_single_block(block, HandledDepth(Top.depth))
       IN  /\ log' = Append(log, Event("visit", Top, frag, FALSE, ""))
           /\ IF block.has_children
              THEN /\ stack' = [stack EXCEPT ![Len(stack)].md = AppendMd(@, frag)]
                   /\ StartFetch(block.id)
              ELSE /\ stack' = [stack EXCEPT ![Len(stack)] =
                                   [@ EXCEPT !.md = AppendMd(@, frag), !.i = @ + 1]]
                   /\ UNCHANGED <<pc, fetch, remote, nextId>>
           /\ UNCHANGED <<file, err, arg, ret>>

\* convert_blocks_to_markdown returns md: to the call that recursed, which
\* appends it and goes on to its next block, or to convert_page_to_md
Return ==
    /\ pc = "convert"
    /\ stack # <<>>
    /\ Top.i > Len(Top.blocks)
    /\ IF Len(stack) > 1
       THEN /\ stack' = [SubSeq(stack, 1, Len(stack) - 1) EXCEPT ![Len(stack) - 1] =
                            [@ EXCEPT !.md = AppendMd(@, Top.md), !.i = @ + 1]]
            /\ UNCHANGED <<pc, ret>>
       ELSE /\ stack' = <<>>
            /\ ret' = Top.md
            /\ pc' = "save"
    /\ UNCHANGED <<fetch, remote, nextId, log, file, err, arg>>

\* convert_page_to_md writes the file and prints its success line
SaveFile ==
    /\ pc = "save"
    /\ file' = [written |-> TRUE, content |-> ret]
    /\ log' = Append(log, FetchEvent("success", PageId, 0, 0, ""))
    /\ pc' = "done"
    /\ UNCHANGED <<stack, fetch, remote, nextId, err, arg, ret>>

Init ==
    /\ pc = "start"
    /\ stack = <<>>
    /\ fetch = NoFetch
    /\ remote = <<>>
    /\ nextId = 1
    /\ log = <<>>
    /\ file = NoFile
    /\ err = ""
    /\ arg = <<>>
    /\ ret = <<>>

Next ==
    \/ ConvertPage
    \/ FetchPage
    \/ SkipConsumed
    \/ VisitImage
    \/ VisitBlock
    \/ Return
    \/ SaveFile

Spec == Init /\ [][Next]_vars

(***************************************************************************)
(* fetch_all_blocks on its own, against any chain of at most MaxPages      *)
(* pages of at most MaxPageSize blocks each (empty pages included).        *)
(***************************************************************************)
RECURSIVE PagesOf(_, _)
\* the pages whose sizes are given, holding the blocks first, first + 1, ...
PagesOf(sizes, first) ==
    IF sizes = <<>> THEN <<>>
    ELSE <<[k \in 1..Head(sizes) |->
              [Block("paragraph", FALSE, TRUE, << <<"a">> >>) EXCEPT !.id = first + k - 1]]>>
         \o PagesOf(Tail(sizes), first + Head(sizes))

PageChains ==
    UNION { { PagesOf(sizes, 1) : sizes \in [1..m -> 0..MaxPageSize] } : m \in 1..MaxPages }

InitFetch ==
    /\ pc = "fetch"
    /\ remote \in PageChains
    /\ fetch = FetchStart(PageId)
    /\ stack = <<>>
    /\ nextId = 1
    /\ log = <<>>
    /\ file = NoFile
    /\ err = ""
    /\ arg = <<>>
    /\ ret = <<>>

\* one list request of fetch_all_blocks, which then loops, returns its blocks
\* or lets the exception out
FetchAlone ==
    /\ pc = "fetch"
    /\ \E return_data \in {ListFailed, ListChildren(remote, fetch.cursor)} :
        LET f == FetchTurn(fetch, return_data)
        IN  /\ fetch' = f
            /\ pc' = CASE f.status = "loop" -> "fetch"
                       [] f.status = "returned" -> "return"
                       [] f.status = "raised" -> "failed"
            /\ ret' = IF f.status = "returned" THEN f.blocks ELSE ret
            /\ err' = IF f.status = "raised" THEN "fetch" ELSE err
            /\ log' = IF return_data.raised
                      THEN Append(log, FetchEvent("listfail", fetch.block_id,
                                                  Len(fetch.reqs), 0, ""))
                      ELSE log
    /\ UNCHANGED <<stack, remote, nextId, file, arg>>

SpecFetch == InitFetch /\ [][FetchAlone]_vars

(***************************************************************************)
(* get_toggle_content on its own, for any answer of the list request: a    *)
(* failure, or at most MaxToggleKids children.                             *)
(***************************************************************************)
ToggleKidKinds ==
    { Block("paragraph", FALSE, TRUE, << <<"a">> >>),
      Block("paragraph", FALSE, TRUE, << <<"d">> >>),
      Block("paragraph", FALSE, TRUE, << <<"b">>, <<"c">> >>),
      Block("bulleted_list_item", FALSE, TRUE, << <<"x">> >>) }

ToggleArgs ==
    { [raised |-> TRUE, results |-> <<>>] } \cup
    UNION { { [raised |-> FALSE, results |-> s] : s \in [1..m -> ToggleKidKinds] } :
            m \in 0..MaxToggleKids }

InitToggle ==
    /\ pc = "call"
    /\ arg \in ToggleArgs
    /\ stack = <<>>
    /\ fetch = NoFetch
    /\ remote = <<>>
    /\ nextId = 1
    /\ log = <<>>
    /\ file = NoFile
    /\ err = ""
    /\ ret = Returned(<<>>)

ToggleAlone ==
    /\ pc = "call"
    /\ ret' = get_toggle_content(arg)
    /\ pc' = "return"
    /\ UNCHANGED <<stack, fetch, remote, nextId, log, file, err, arg>>

SpecToggle == InitToggle /\ [][ToggleAlone]_vars

(***************************************************************************)
(* image_block_to_markdown on its own, for any image block, alt-text and   *)
(* status of the download's answer.                                        *)
(***************************************************************************)
AltTexts == { <<>>, <<"a">>, <<"a", NL, "b">>, <<"c", "d">> }

DownloadStatusCodes == {200, 403, 404, 500, 503}

ImageArgs ==
    [block : { [Block("image", FALSE, FALSE, <<>>) EXCEPT !.id = n] : n \in 1..MaxBlocks },
     alt_text : AltTexts,
     status_code : DownloadStatusCodes]

InitImage ==
    /\ pc = "call"
    /\ arg \in ImageArgs
    /\ stack = <<>>
    /\ fetch = NoFetch
    /\ remote = <<>>
    /\ nextId = 1
    /\ log = <<>>
    /\ file = NoFile
    /\ err = ""
    /\ ret = [raised |-> FALSE, value |-> <<>>, wrote |-> FALSE]

ImageAlone ==
    /\ pc = "call"
    /\ ret' = image_block_to_markdown(arg.block, arg.alt_text, arg.status_code)
    /\ pc' = "return"
    /\ UNCHANGED <<stack, fetch, remote, nextId, log, file, err, arg>>

SpecImage == InitImage /\ [][ImageAlone]_vars

(***************************************************************************)
(* Properties, stated over the history and the program's state.            *)
(***************************************************************************)
\* "![<alt>](images/<id>.png)" and its line break
ImageLink(alt, id) ==
    <<"![">> \o alt \o <<"](", "images", "/", ToString(id), ".png", ")", NL>>

\* the history's entries about blocks the loop handled or passed
BlockEvents == { k \in DOMAIN log : log[k].ev \in {"visit", "skip"} }

\* the entries about the sibling list of entry k
SameList(j, k) == log[j].parent = log[k].parent /\ log[j].i > 0 /\ log[k].i > 0

\* every rendered fragment of the history, in order
FragsOf(l) ==
    Flatten([k \in 1..Len(l) |-> IF l[k].ev = "visit" THEN l[k].frag ELSE <<>>])

\* the texts of the paragraphs among children, in order
ParagraphTexts(children) ==
    LET paragraphs == SelectSeq(children, LAMBDA c : c.type = "paragraph")
    IN  [k \in 1..Len(paragraphs) |-> Flatten(paragraphs[k].rich_text)]

\* line starts with exactly d indent units
IndentedBy(line, d) ==
    /\ Len(line) >= d
    /\ \A j \in 1..d : line[j] = "  "
    /\ Len(line) > d => line[d + 1] # "  "

\* C4: under well-behaved pagination fetch_all_blocks sends one list request
\* per page, the first with no cursor and each later one with the cursor the
\* page before gave, never more requests than there are pages, and returns
\* the pages' results concatenated in page order: every child once, in the
\* remote order.
C4_FetchAllBlocksComplete ==
    /\ Len(fetch.reqs) <= Len(remote)
    /\ \A k \in 1..Len(fetch.reqs) :
          fetch.reqs[k] = IF k = 1 THEN NoCursor
                          ELSE ListChildren(remote, fetch.reqs[k - 1]).next_cursor
    /\ pc = "fetch" =>
          /\ Len(fetch.reqs) < Len(remote)
          /\ fetch.blocks = Flatten(SubSeq(remote, 1, Len(fetch.reqs)))
    /\ pc = "return" =>
          /\ Len(fetch.reqs) = Len(remote)
          /\ ret = Flatten(remote)
          /\ \A k \in 1..Len(ret) : ret[k].id = k

\* C4's case: a fetch over several pages has returned three blocks or more
C4_Witness == pc = "return" /\ Len(remote) >= 2 /\ Len(ret) >= 3

\* C5: when the list request succeeds get_toggle_content returns the texts of
\* the toggle's paragraph children, one entry per paragraph child and each its
\* own text, in child order, joined by a line break (the empty string when
\* there is none), and it does not raise.
C5_ToggleContentIsParagraphTexts ==
    (pc = "return" /\ ~arg.raised) =>
        /\ ~ret.raised
        /\ ret.value = JoinWith(<<NL>>, ParagraphTexts(arg.results))

\* C8: when the download is answered with a status outside 200..299,
\* image_block_to_markdown does not return the Markdown link of a success: the
\* failure reaches its caller as an exception.
C8_DownloadFailureIsSignalled ==
    (pc = "return" /\ arg.status_code \notin 200..299) =>
        /\ ret.raised
        /\ ret.value # ImageLink(arg.alt_text, arg.block.id)

\* C1: an image block that no toggle follows at the next index of its sibling
\* list (the last or only block, or one after an earlier image and toggle
\* pair) is rendered with empty alt-text, "![](images/<id>.png)", and the
\* conversion does not fail at it.
C1_UnpairedImageHasEmptyAlt ==
    \A k \in DOMAIN log :
        (/\ log[k].ev \in {"visit", "raise"}
         /\ log[k].i > 0
         /\ log[k].block.type = "image"
         /\ log[k].next # "toggle")
        => /\ log[k].ev = "visit"
           /\ log[k].frag = ImageLink(<<>>, log[k].block.id)

\* C3: every line of the fragment of a block that is no image, rendered at
\* depth d, starts with exactly d indent units.
C3_FragmentIndentedByDepth ==
    \A k \in DOMAIN log :
        (log[k].ev = "visit" /\ log[k].block.type # "image")
        => LET lines == SplitLines(log[k].frag)
           IN  \A n \in 1..Len(lines) : IndentedBy(lines[n], log[k].depth)

\* the loop consumes a toggle only right after an image it rendered, and what
\* it consumes is a toggle
ConsumedOnlyAfterImage ==
    \A k \in DOMAIN log :
        log[k].ev = "skip"
        => /\ log[k].block.type = "toggle"
           /\ \E j \in 1..(k - 1) :
                 /\ log[j].ev = "visit"
                 /\ SameList(j, k)
                 /\ log[j].i = log[k].i - 1
                 /\ log[j].block.type = "image"

\* the blocks of a sibling list are handled in index order, none twice
InIndexOrder ==
    \A j, k \in BlockEvents : (j < k /\ SameList(j, k)) => log[j].i < log[k].i

\* no index is left out: an entry about index i > 1 comes after one about
\* index i - 1 of the same list, and every active call has handled or passed
\* all the indices before its own
NoIndexLeftOut ==
    /\ \A k \in BlockEvents :
          log[k].i > 1 =>
              \E j \in BlockEvents : j < k /\ SameList(j, k) /\ log[j].i = log[k].i - 1
    /\ \A d \in DOMAIN stack :
          \A idx \in 1..(stack[d].i - 1) :
              \E k \in BlockEvents : log[k].parent = stack[d].parent /\ log[k].i = idx

\* when the page is done every block of every fetched list has exactly one
\* entry: rendered, or passed as a consumed toggle
AllHandledWhenDone ==
    pc = "done" =>
        \A f \in DOMAIN log :
            log[f].ev = "fetch" =>
                \A idx \in 1..log[f].n :
                    Cardinality({ k \in BlockEvents :
                                    log[k].parent = log[f].parent /\ log[k].i = idx }) = 1

\* a consumed toggle is not rendered and its children are not fetched for
\* conversion
ConsumedContributesNothing ==
    \A k \in DOMAIN log :
        log[k].ev = "skip" =>
            \A j \in DOMAIN log :
                log[j].block.id = log[k].block.id => (j = k /\ log[j].frag = <<>>)

\* a toggle is consumed whenever it follows a rendered image: it is never
\* rendered then
PairedToggleNeverRendered ==
    \A j, k \in DOMAIN log :
        (/\ log[j].ev = "visit" /\ log[j].block.type = "image"
         /\ SameList(j, k) /\ log[k].i = log[j].i + 1
         /\ log[k].block.type = "toggle")
        => log[k].ev = "skip"

\* C2: an image consumes a toggle only at the next index of its own sibling
\* list, and at most that one; a consumed toggle is neither rendered nor are
\* its children converted; every other block is visited exactly once, in index
\* order.
C2_PairingRule ==
    /\ ConsumedOnlyAfterImage
    /\ PairedToggleNeverRendered
    /\ ConsumedContributesNothing
    /\ InIndexOrder
    /\ NoIndexLeftOut
    /\ AllHandledWhenDone

\* C2's case: [image, toggle, toggle] converted to the end, the first toggle
\* consumed and the second rendered
C2_Witness ==
    /\ pc = "done"
    /\ \E a, b, c \in DOMAIN log :
          /\ log[a].ev = "visit" /\ log[a].block.type = "image" /\ log[a].i = 1
          /\ log[b].ev = "skip" /\ SameList(a, b) /\ log[b].i = 2
          /\ log[c].ev = "visit" /\ SameList(a, c) /\ log[c].i = 3
          /\ log[c].block.type = "toggle"

\* the conversion of the children of the block of entry k comes next: their
\* fetch is running, or the next entry is about it (its return, or the
\* failure that ends the run), at the depth below
ChildrenComeNext(k) ==
    /\ k = Len(log) => (pc = "fetch" /\ fetch.block_id = log[k].block.id)
    /\ k < Len(log) =>
          /\ log[k + 1].ev \in {"fetch", "listfail"}
          /\ log[k + 1].block.id = log[k].block.id
          /\ log[k + 1].depth = log[k].depth + 1

\* the loop goes on after entry k: while the entry is the last the run has
\* not failed and the call that handles the list, as long as it is active,
\* stands at the next index; when the page is done, the next block of the
\* list has its entry, after k
SiblingsComeAfter(k) ==
    /\ (k = Len(log) /\ ~log[k].block.has_children) =>
          /\ pc \in {"convert", "save"}
          /\ \A d \in DOMAIN stack :
                stack[d].parent = log[k].parent => stack[d].i = log[k].i + 1
    /\ (pc = "done" /\ log[k].i < log[k].n) =>
          \E j \in BlockEvents : j > k /\ SameList(j, k) /\ log[j].i = log[k].i + 1

C7_FetchErrorAbortsPage ==
    /\ (\E k \in DOMAIN log : log[k].ev = "listfail") =>
          /\ pc = "failed"
          /\ err = "fetch"
          /\ stack = <<>>
          /\ file = NoFile
          /\ \A k \in DOMAIN log : log[k].ev # "success"
    /\ file.written =>
          /\ pc = "done"
          /\ stack = <<>>
          /\ fetch.status = "idle"
          /\ \A k \in DOMAIN log : log[k].ev # "listfail"
    /\ (\E k \in DOMAIN log : log[k].ev = "success") => file.written

\* C7's case: the list request for a nested block's second page failed
C7_Witness ==
    /\ pc = "failed"
    /\ \E k \in DOMAIN log :
          log[k].ev = "listfail" /\ log[k].depth >= 1 /\ log[k].n >= 1

\* C9: rendering a block whose type has no handler raises nothing; with a
\* rich_text field in its payload the fragment is the extracted text followed
\* by a blank line, without one it is empty; the traversal goes on with the
\* block's children when it has some and with the siblings after it.
C9_UnknownTypeFallback ==
    \A k \in DOMAIN log :
        (/\ log[k].ev \in {"visit", "raise"}
         /\ log[k].i > 0
         /\ log[k].block.type \notin HandledTypes \cup {"image"})
        => /\ log[k].ev = "visit"
           /\ log[k].frag = (IF log[k].block.rich
                             THEN Flatten(log[k].block.rich_text) \o <<NL, NL>>
                             ELSE <<>>)
           /\ log[k].block.has_children => ChildrenComeNext(k)
           /\ SiblingsComeAfter(k)

\* C9's case: a divider with a quote as its child and an unpaired toggle after
\* it, all three rendered, the page done
C9_Witness ==
    /\ pc = "done"
    /\ \E a, b, c \in DOMAIN log :
          /\ a < b /\ b < c
          /\ log[a].ev = "visit" /\ log[a].block.type = "divider"
          /\ log[b].ev = "visit" /\ log[b].block.type = "quote"
          /\ log[b].parent = log[a].block.id
          /\ log[b].frag = <<"q", NL, "r", NL, NL>>
          /\ log[c].ev = "visit" /\ log[c].block.type = "toggle"
          /\ SameList(a, c) /\ log[c].frag = <<"t", NL, NL>>

\* the entries about the children of the block of entry k come after k, at the
\* depth below, and before the entries about the siblings after it
ChildrenBeforeNextSibling(k) ==
    \A j \in BlockEvents :
        log[j].parent = log[k].block.id =>
            /\ j > k
            /\ log[j].depth = log[k].depth + 1
            /\ \A m \in BlockEvents :
                  (SameList(m, k) /\ log[m].i > log[k].i) => m > j

\* what has been rendered so far, in the order it was rendered, is what the
\* active calls hold, outermost first; it is what the page conversion returns
\* and what the file gets
OutputInTraversalOrder ==
    /\ pc \in {"convert", "fetch"} =>
          Flatten([d \in DOMAIN stack |-> stack[d].md]) = FragsOf(log)
    /\ pc = "save" => ret = FragsOf(log)
    /\ pc = "done" => file.content = FragsOf(log)

\* C10 as stated: every block that is no consumed toggle, images included,
\* has its children fetched and converted at depth + 1 when has_children is
\* set, right after its own fragment and before the next sibling's; the
\* siblings' fragments are in index order.
C10_PreOrderAllBlocks ==
    /\ \A k \in DOMAIN log :
          (log[k].ev = "visit" /\ log[k].block.has_children)
          => (ChildrenComeNext(k) /\ ChildrenBeforeNextSibling(k))
    /\ InIndexOrder
    /\ OutputInTraversalOrder

\* C10 as amended: the same for every block that is neither an image nor a
\* consumed toggle; an image's children are not fetched.
C10_PreOrderNonImageBlocks ==
    /\ \A k \in DOMAIN log :
          (log[k].ev = "visit" /\ log[k].block.has_children /\ log[k].block.type # "image")
          => (ChildrenComeNext(k) /\ ChildrenBeforeNextSibling(k))
    /\ \A k, j \in DOMAIN log :
          (log[k].ev = "visit" /\ log[k].block.type = "image")
          => (log[j].i = 0 => log[j].block.id # log[k].block.id)
    /\ InIndexOrder
    /\ OutputInTraversalOrder

\* C10's case: a block with a child and a sibling after it, all rendered with
\* fragments of their own, the page done
C10_Witness ==
    /\ pc = "done"
    /\ \E a, b, c \in DOMAIN log :
          /\ a < b /\ b < c
          /\ log[a].ev = "visit" /\ log[a].block.has_children /\ log[a].frag # <<>>
          /\ log[b].ev = "visit" /\ log[b].parent = log[a].block.id /\ log[b].frag # <<>>
          /\ log[c].ev = "visit" /\ SameList(a, c) /\ log[c].i = log[a].i + 1
          /\ log[c].frag # <<>>

====
